---- MODULE Spec2Model ----
(***************************************************************************)
(* Model of tempest_lib.common.rest_client.RestClient: the request         *)
(* lifecycle (header defaults, authentication, dispatch, the 413 retry     *)
(* loop), the error classifier _error_checker, the absolute-limit decision *)
(* is_absolute_limit and the response normalizer _parse_resp.              *)
(*                                                                         *)
(* Python values are modelled as follows.                                  *)
(*  - A decoded JSON value is a record [kind, s, n, d, l]: kind is one of  *)
(*    "dict", "list", "str", "num", "null"; s is the text of a string as a *)
(*    sequence of characters; n the number; d the items of a mapping in    *)
(*    iteration order, each [k, v]; l the elements of a list.              *)
(*  - A raw body is [text, val]: text "json" is a text that json.loads     *)
(*    decodes to val, "garbage" a non-empty text that does not decode,     *)
(*    "empty" the empty text.                                              *)
(*  - A Python call that can raise returns [exc, val]: exc is the name of  *)
(*    the exception raised, or "" when the call returned val.              *)
(***************************************************************************)
EXTENDS Integers, Sequences, FiniteSets, TLC

\* ------------------------------------------------------------------ bounds

\* retry-after header values are the decimal texts of 1..MaxDelay
MaxDelay == 2

\* largest build_interval and build_timeout, in seconds
MaxInterval == 2

MaxTimeout == 3

\* most false answers of is_resource_deleted before a true one
MaxFalse == 3

\* most seconds one poll of is_resource_deleted takes
MaxPollTime == 1

\* ------------------------------------------------------- program constants

MAX_RECURSION_DEPTH == 2

HTTP_SUCCESS == {200, 201, 202, 203, 204, 205, 206, 207}

JSON_ENC == {"application/json", "application/json; charset=utf-8"}

TXT_ENC == {"text/plain", "text/html", "text/html; charset=utf-8",
            "text/plain; charset=utf-8"}

\* the exceptions of tempest_lib.exceptions that the client raises
TypedErrors == {"Unauthorized", "Forbidden", "NotFound", "BadRequest",
                "Conflict", "OverLimit", "RateLimitExceeded",
                "InvalidContentType", "UnprocessableEntity", "ServerFault",
                "NotImplemented", "UnexpectedResponseCode",
                "InvalidHTTPResponseBody", "InvalidHTTPResponseHeader",
                "InvalidHttpSuccessCode", "ResponseWithNonEmptyBody",
                "ResponseWithEntity", "TimeoutException"}

\* the builtin exceptions the modelled code can let escape
GenericErrors == {"ValueError", "AttributeError", "StopIteration",
                  "TypeError", "KeyError"}

\* the builtin exceptions the utility methods raise on purpose
OtherErrors == {"AssertionError", "NotImplementedError"}

\* ------------------------------------------------------------ JSON values

JNull == [kind |-> "null", s |-> <<>>, n |-> 0, d |-> <<>>, l |-> <<>>]

JStr(chars) == [kind |-> "str", s |-> chars, n |-> 0, d |-> <<>>, l |-> <<>>]

JNum(i) == [kind |-> "num", s |-> <<>>, n |-> i, d |-> <<>>, l |-> <<>>]

JDict(items) == [kind |-> "dict", s |-> <<>>, n |-> 0, d |-> items, l |-> <<>>]

JList(elems) == [kind |-> "list", s |-> <<>>, n |-> 0, d |-> <<>>, l |-> elems]

KV(key, value) == [k |-> key, v |-> value]

\* Python truthiness of a decoded value
Truthy(v) ==
    CASE v.kind = "null" -> FALSE
      [] v.kind = "str"  -> Len(v.s) > 0
      [] v.kind = "num"  -> v.n # 0
      [] v.kind = "dict" -> Len(v.d) > 0
      [] v.kind = "list" -> Len(v.l) > 0

\* key in mapping
HasKey(v, key) == \E i \in 1..Len(v.d) : v.d[i].k = key

\* mapping[key] for a key that is present
Lookup(v, key) == v.d[CHOOSE i \in 1..Len(v.d) : v.d[i].k = key].v

\* needle in hay, for two texts
Contains(needle, hay) ==
    \E i \in 0..(Len(hay) - Len(needle)) :
        SubSeq(hay, i + 1, i + Len(needle)) = needle

Exceed == <<"e", "x", "c", "e", "e", "d">>

Blabla == <<"b", "l", "a", "b", "l", "a">>

Ok(v) == [exc |-> "", val |-> v]

Raise(e) == [exc |-> e, val |-> JNull]

\* 'exceed' in x, for a decoded value x
ExceedIn(x) ==
    CASE x.kind = "str"  -> [exc |-> "", val |-> Contains(Exceed, x.s)]
      [] x.kind = "list" -> [exc |-> "", val |-> \E i \in 1..Len(x.l) : x.l[i] = JStr(Exceed)]
      [] x.kind = "dict" -> [exc |-> "", val |-> HasKey(x, "exceed")]
      [] OTHER           -> [exc |-> "TypeError", val |-> FALSE]

\* value[key] as the 500/501 branch evaluates it
Subscript(v, key) ==
    CASE v.kind = "dict" -> IF HasKey(v, key) THEN Ok(Lookup(v, key)) ELSE Raise("KeyError")
      [] OTHER           -> Raise("TypeError")

\* ------------------------------------------------------------- raw bodies

RawJson(v) == [text |-> "json", val |-> v]

RawGarbage == [text |-> "garbage", val |-> JNull]

RawEmpty == [text |-> "empty", val |-> JNull]

\* json.loads
json_loads(raw) == IF raw.text = "json" THEN Ok(raw.val) ELSE Raise("ValueError")

\* A body as the classifier holds it: the raw text, or the value that
\* _parse_resp returned for it.
PRaw(raw) == [form |-> "raw", raw |-> raw, val |-> JNull]

PVal(v) == [form |-> "parsed", raw |-> RawEmpty, val |-> v]

\* ------------------------------------------------------------ _parse_resp

\* _parse_resp that unwraps the value of a single key whatever its type
_parse_resp_unwrapAny(raw) ==
    LET loaded == json_loads(raw)
        body == loaded.val
    IN  IF loaded.exc # "" THEN loaded
        ELSE IF body.kind # "dict" THEN Raise("AttributeError")
        ELSE IF Len(body.d) > 1 THEN Ok(body)
        ELSE IF Len(body.d) = 0 THEN Raise("StopIteration")
        ELSE Ok(body.d[1].v)

_parse_resp(raw) ==
    LET loaded == json_loads(raw)
        body == loaded.val
    IN  IF loaded.exc # "" THEN loaded
        ELSE IF body.kind # "dict" THEN Raise("AttributeError")
        ELSE IF Len(body.d) > 1 THEN Ok(body)
        ELSE IF Len(body.d) = 0 THEN Raise("StopIteration")
        ELSE LET first_item == body.d[1].v
             IN  IF first_item.kind \in {"dict", "list"}
                 THEN Ok(first_item)
                 ELSE Ok(body)

\* ------------------------------------------------- response descriptors

\* A response descriptor is [status, hdrs]: hdrs maps the lower-case names
\* of the headers that are present to their texts.
Response(status, hdrs) == [status |-> status, hdrs |-> hdrs]

HasHeader(resp, name) == name \in DOMAIN resp.hdrs

\* a header value that is an HTTP date, which int() does not accept
HttpDate == "Wed, 21 Oct 2015 07:28:00 GMT"

\* int(text): the number whose decimal text it is, or ValueError
int(text) ==
    IF \E i \in 0..(MaxDelay + 1) : ToString(i) = text
    THEN [exc |-> "", val |-> CHOOSE i \in 0..(MaxDelay + 1) : ToString(i) = text]
    ELSE [exc |-> "ValueError", val |-> 0]

\* str.lower() on the content types in use
lower(text) ==
    CASE text = "Application/JSON" -> "application/json"
      [] text = "Text/Plain"       -> "text/plain"
      [] OTHER                     -> text

\* ------------------------------------------------------ is_absolute_limit

\* is_absolute_limit with the sense of the "exceed" test reversed
is_absolute_limit_reversed(resp, p) ==
    IF p.form # "parsed" \/ p.val.kind # "dict" \/ ~HasHeader(resp, "retry-after")
    THEN [exc |-> "", val |-> TRUE]
    ELSE LET over_limit == IF HasKey(p.val, "overLimit")
                           THEN Lookup(p.val, "overLimit") ELSE JNull
         IN  IF ~Truthy(over_limit) THEN [exc |-> "", val |-> TRUE]
             ELSE IF over_limit.kind # "dict"
                  THEN [exc |-> "AttributeError", val |-> FALSE]
                  ELSE LET found == ExceedIn(IF HasKey(over_limit, "message")
                                             THEN Lookup(over_limit, "message")
                                             ELSE JStr(Blabla))
                       IN  [exc |-> found.exc, val |-> ~found.val]

is_absolute_limit(resp, p) ==
    IF p.form # "parsed" \/ p.val.kind # "dict" \/ ~HasHeader(resp, "retry-after")
    THEN [exc |-> "", val |-> TRUE]
    ELSE LET over_limit == IF HasKey(p.val, "overLimit")
                           THEN Lookup(p.val, "overLimit") ELSE JNull
         IN  IF ~Truthy(over_limit) THEN [exc |-> "", val |-> TRUE]
             ELSE IF over_limit.kind # "dict"
                  THEN [exc |-> "AttributeError", val |-> FALSE]
                  ELSE ExceedIn(IF HasKey(over_limit, "message")
                                THEN Lookup(over_limit, "message")
                                ELSE JStr(Blabla))

\* --------------------------------------------------------- _error_checker

PStatus(status) == [form |-> "status", raw |-> RawEmpty, val |-> JNum(status)]

PNone == [form |-> "none", raw |-> RawEmpty, val |-> JNull]

Returned == [exc |-> "", val |-> PNone]

Raised(e, p) == [exc |-> e, val |-> p]

\* the body the 400, 409, 413, 415 and 422 branches attach: normalized when
\* parse_resp is set, raw otherwise; exc is set when _parse_resp raised
BodyFor(parse_resp, raw) ==
    IF parse_resp
    THEN LET r == _parse_resp(raw)
         IN  IF r.exc # "" THEN Raised(r.exc, PNone) ELSE [exc |-> "", val |-> PVal(r.val)]
    ELSE [exc |-> "", val |-> PRaw(raw)]

RaiseWithBody(e, parse_resp, raw) ==
    LET b == BodyFor(parse_resp, raw)
    IN  IF b.exc # "" THEN b ELSE Raised(e, b.val)

Check413(resp, parse_resp, raw) ==
    LET b == BodyFor(parse_resp, raw)
    IN  IF b.exc # "" THEN b
        ELSE LET a == is_absolute_limit(resp, b.val)
             IN  IF a.exc # "" THEN Raised(a.exc, PNone)
                 ELSE IF a.val THEN Raised("OverLimit", b.val)
                 ELSE Raised("RateLimitExceeded", b.val)

\* The message the 500/501 branch extracts once the body has parsed to
\* resp_body: message starts as the raw body and is replaced by the first of
\* cloudServersFault.message, computeFault.message, error.message, message
\* whose outer key is present, or by resp_body itself when that is not a dict.
FaultMessage(raw, resp_body) ==
    LET Field(key) ==
            LET outer == Subscript(resp_body, key)
                inner == Subscript(outer.val, "message")
            IN  IF outer.exc # "" THEN Raised(outer.exc, PNone)
                ELSE IF inner.exc # "" THEN Raised(inner.exc, PNone)
                ELSE [exc |-> "", val |-> PVal(inner.val)]
    IN  IF resp_body.kind = "dict"
        THEN CASE HasKey(resp_body, "cloudServersFault") -> Field("cloudServersFault")
               [] HasKey(resp_body, "computeFault")      -> Field("computeFault")
               [] HasKey(resp_body, "error")             -> Field("error")
               [] HasKey(resp_body, "message")           ->
                        [exc |-> "", val |-> PVal(Lookup(resp_body, "message"))]
               [] OTHER                                  -> [exc |-> "", val |-> PRaw(raw)]
        ELSE [exc |-> "", val |-> PVal(resp_body)]

Check5xx(resp, parse_resp, raw) ==
    LET kind == IF resp.status = 501 THEN "NotImplemented" ELSE "ServerFault"
    IN  IF ~parse_resp THEN Raised(kind, PRaw(raw))
        ELSE LET r == _parse_resp(raw)
             IN  IF r.exc = "ValueError" THEN Raised("InvalidHTTPResponseBody", PRaw(raw))
                 ELSE IF r.exc # "" THEN Raised(r.exc, PNone)
                 ELSE LET m == FaultMessage(raw, r.val)
                      IN  IF m.exc # "" THEN m ELSE Raised(kind, m.val)

\* _error_checker that takes a missing content-type header for plain text
_error_checker_textDefault(resp, raw) ==
    LET ctype == IF HasHeader(resp, "content-type")
                 THEN resp.hdrs["content-type"] ELSE "text/plain"
        known == lower(ctype) \in JSON_ENC \cup TXT_ENC
        parse_resp == lower(ctype) \in JSON_ENC
    IN  IF resp.status < 400 THEN Returned
        ELSE IF ~known THEN Raised("InvalidContentType", PStatus(resp.status))
        ELSE CASE resp.status = 401 -> Raised("Unauthorized", PRaw(raw))
               [] resp.status = 403 -> Raised("Forbidden", PRaw(raw))
               [] resp.status = 404 -> Raised("NotFound", PRaw(raw))
               [] resp.status = 400 -> RaiseWithBody("BadRequest", parse_resp, raw)
               [] resp.status = 409 -> RaiseWithBody("Conflict", parse_resp, raw)
               [] resp.status = 413 -> Check413(resp, parse_resp, raw)
               [] resp.status = 415 -> RaiseWithBody("InvalidContentType", parse_resp, raw)
               [] resp.status = 422 -> RaiseWithBody("UnprocessableEntity", parse_resp, raw)
               [] resp.status \in {500, 501} -> Check5xx(resp, parse_resp, raw)
               [] OTHER -> Raised("UnexpectedResponseCode", PStatus(resp.status))

_error_checker(resp, raw) ==
    LET ctype == IF HasHeader(resp, "content-type")
                 THEN resp.hdrs["content-type"] ELSE "application/json"
        known == lower(ctype) \in JSON_ENC \cup TXT_ENC
        parse_resp == lower(ctype) \in JSON_ENC
    IN  IF resp.status < 400 THEN Returned
        ELSE IF ~known THEN Raised("InvalidContentType", PStatus(resp.status))
        ELSE CASE resp.status = 401 -> Raised("Unauthorized", PRaw(raw))
               [] resp.status = 403 -> Raised("Forbidden", PRaw(raw))
               [] resp.status = 404 -> Raised("NotFound", PRaw(raw))
               [] resp.status = 400 -> RaiseWithBody("BadRequest", parse_resp, raw)
               [] resp.status = 409 -> RaiseWithBody("Conflict", parse_resp, raw)
               [] resp.status = 413 -> Check413(resp, parse_resp, raw)
               [] resp.status = 415 -> RaiseWithBody("InvalidContentType", parse_resp, raw)
               [] resp.status = 422 -> RaiseWithBody("UnprocessableEntity", parse_resp, raw)
               [] resp.status \in {500, 501} -> Check5xx(resp, parse_resp, raw)
               [] OTHER -> Raised("UnexpectedResponseCode", PStatus(resp.status))

\* ------------------------------------------------------- response_checker

\* str.upper() on the request methods in use
upper(text) ==
    CASE text = "head" -> "HEAD"
      [] text = "Head" -> "HEAD"
      [] text = "get"  -> "GET"
      [] OTHER         -> text

general_header_lc == {"cache-control", "connection", "date", "pragma",
                      "trailer", "transfer-encoding", "via", "warning"}

response_header_lc == {"accept-ranges", "age", "etag", "location",
                       "proxy-authenticate", "retry-after", "server",
                       "vary", "www-authenticate"}

\* response_checker comparing the method with "HEAD" as it is written
response_checker_exactHEAD(method, resp, raw) ==
    IF (resp.status \in {204, 205, 304} \/ resp.status < 200 \/ method = "HEAD")
       /\ raw.text # "empty"
    THEN "ResponseWithNonEmptyBody"
    ELSE IF resp.status = 205
            /\ ((DOMAIN resp.hdrs \ {"status"}) \ response_header_lc) \ general_header_lc # {}
         THEN "ResponseWithEntity"
         ELSE ""

\* response_checker looking at the headers of a 205 before the body
response_checker_entityFirst(method, resp, raw) ==
    IF resp.status = 205
       /\ ((DOMAIN resp.hdrs \ {"status"}) \ response_header_lc) \ general_header_lc # {}
    THEN "ResponseWithEntity"
    ELSE IF (resp.status \in {204, 205, 304} \/ resp.status < 200 \/ upper(method) = "HEAD")
            /\ raw.text # "empty"
         THEN "ResponseWithNonEmptyBody"
         ELSE ""

\* the name of the exception response_checker raises, or ""
response_checker(method, resp, raw) ==
    IF (resp.status \in {204, 205, 304} \/ resp.status < 200 \/ upper(method) = "HEAD")
       /\ raw.text # "empty"
    THEN "ResponseWithNonEmptyBody"
    ELSE IF resp.status = 205
            /\ ((DOMAIN resp.hdrs \ {"status"}) \ response_header_lc) \ general_header_lc # {}
         THEN "ResponseWithEntity"
         ELSE ""

\* ------------------------------------------------------- request headers

EmptyMap == [k \in {} |-> ""]

\* dict.update: base with the entries of other written over it
Update(base, other) ==
    [k \in DOMAIN base \cup DOMAIN other |->
        IF k \in DOMAIN other THEN other[k] ELSE base[k]]

\* get_headers() of a client whose TYPE is "json"
get_headers == [k \in {"Content-Type", "Accept"} |-> "application/json"]

\* RequestHeaders with the merge the other way round: defaults first, the
\* caller's entries written over them
RequestHeaders_callerWins(c) ==
    IF ~c.given THEN get_headers
    ELSE IF c.extra THEN Update(get_headers, c.map)
    ELSE c.map

\* the headers mapping request() works with, for a call c = [given, map,
\* extra]: given is FALSE when the caller passed no headers
RequestHeaders(c) ==
    IF ~c.given THEN get_headers
    ELSE IF c.extra THEN Update(c.map, get_headers)
    ELSE c.map

\* whether request()'s headers mapping is the caller's own object
SharesCallerMap(c) == c.given /\ ~c.extra

\* The headers auth_request returns: a provider of kind "same" returns the
\* mapping it was given, one of kind "token" a copy with the token added.
auth_request(kind, hdrs) ==
    IF kind = "same" THEN hdrs
    ELSE Update(hdrs, [k \in {"X-Auth-Token"} |-> "token"])

\* _log_request_full's write to req_headers
Redact(hdrs) ==
    IF "X-Auth-Token" \in DOMAIN hdrs
    THEN [hdrs EXCEPT !["X-Auth-Token"] = "<omitted>"]
    ELSE hdrs

\* --------------------------------------------------------- retry decision

\* LoopCond without the test of the status
LoopCond_anyStatus(resp, raw, retry) ==
    IF ~HasHeader(resp, "retry-after")
    THEN [exc |-> "", val |-> FALSE]
    ELSE LET parsed == _parse_resp(raw)
         IN  IF parsed.exc # "" THEN [exc |-> parsed.exc, val |-> FALSE]
             ELSE LET a == is_absolute_limit(resp, PVal(parsed.val))
                  IN  IF a.exc # "" THEN a
                      ELSE [exc |-> "", val |-> ~a.val /\ retry < MAX_RECURSION_DEPTH]

\* LoopCond with the retry bound off by one
LoopCond_oneMore(resp, raw, retry) ==
    IF resp.status # 413 \/ ~HasHeader(resp, "retry-after")
    THEN [exc |-> "", val |-> FALSE]
    ELSE LET parsed == _parse_resp(raw)
         IN  IF parsed.exc # "" THEN [exc |-> parsed.exc, val |-> FALSE]
             ELSE LET a == is_absolute_limit(resp, PVal(parsed.val))
                  IN  IF a.exc # "" THEN a
                      ELSE [exc |-> "", val |-> ~a.val /\ retry <= MAX_RECURSION_DEPTH]

\* the condition of request()'s while loop, evaluated left to right
LoopCond(resp, raw, retry) ==
    IF resp.status # 413 \/ ~HasHeader(resp, "retry-after")
    THEN [exc |-> "", val |-> FALSE]
    ELSE LET parsed == _parse_resp(raw)
         IN  IF parsed.exc # "" THEN [exc |-> parsed.exc, val |-> FALSE]
             ELSE LET a == is_absolute_limit(resp, PVal(parsed.val))
                  IN  IF a.exc # "" THEN a
                      ELSE [exc |-> "", val |-> ~a.val /\ retry < MAX_RECURSION_DEPTH]

\* --------------------------------------------------------- expected_success

\* the expected_code argument: one code, or a list of codes
Expected(list, codes) == [list |-> list, codes |-> codes]

\* expected_success without the read_code < 400 test
expected_success_anyCode(expected_code, read_code) ==
    LET codes == expected_code.codes
    IN  IF expected_code.list /\ (\E i \in 1..Len(codes) : codes[i] \notin HTTP_SUCCESS)
        THEN "AssertionError"
        ELSE IF ~expected_code.list /\ codes[1] \notin HTTP_SUCCESS
        THEN "AssertionError"
        ELSE IF \/ ~expected_code.list /\ read_code # codes[1]
                \/ expected_code.list /\ (\A i \in 1..Len(codes) : codes[i] # read_code)
             THEN "InvalidHttpSuccessCode"
             ELSE ""

\* the name of the exception expected_success raises, or ""
expected_success(expected_code, read_code) ==
    LET codes == expected_code.codes
    IN  IF expected_code.list /\ (\E i \in 1..Len(codes) : codes[i] \notin HTTP_SUCCESS)
        THEN "AssertionError"
        ELSE IF ~expected_code.list /\ codes[1] \notin HTTP_SUCCESS
        THEN "AssertionError"
        ELSE IF read_code < 400
                /\ (\/ ~expected_code.list /\ read_code # codes[1]
                    \/ expected_code.list /\ (\A i \in 1..Len(codes) : codes[i] # read_code))
             THEN "InvalidHttpSuccessCode"
             ELSE ""

\* -------------------------------------------------------- validate_response

\* A JSON schema as the response schemas use it: absent from the response
\* schema (kind "absent"), the empty schema {} (kind "empty"), or a schema
\* naming the type of the instance and the keys it requires of a mapping.
NoSchema == [kind |-> "absent", type |-> "any", required |-> {}]

EmptySchema == [kind |-> "empty", type |-> "any", required |-> {}]

TypeSchema(type, required) == [kind |-> "schema", type |-> type, required |-> required]

\* the JSON schema type of a value kind
TypeName(kind) ==
    CASE kind = "dict" -> "object"
      [] kind = "list" -> "array"
      [] kind = "str"  -> "string"
      [] kind = "num"  -> "integer"
      [] OTHER         -> "null"

\* jsonschema.validate(instance, schema) raises no ValidationError, for an
\* instance of the given kind with the given keys
jsonschema_validate(kind, keys, sch) ==
    /\ sch.type # "any" => TypeName(kind) = sch.type
    /\ kind = "dict" => sch.required \subseteq keys

\* the keys of a decoded mapping
Keys(v) == {v.d[i].k : i \in 1..Len(v.d)}

\* validate_response without the test that the status is a success code
validate_response_anyStatus(schema, resp, body) ==
    LET status == expected_success(schema.status_code, resp.status)
        body_schema == schema.response_body
        header_schema == schema.response_header
    IN  IF status # "" THEN status
        ELSE IF body_schema.kind = "schema"
                /\ ~jsonschema_validate(body.kind, Keys(body), body_schema)
             THEN "InvalidHTTPResponseBody"
        ELSE IF body_schema.kind # "schema" /\ Truthy(body)
             THEN "InvalidHTTPResponseBody"
        ELSE IF header_schema.kind = "schema"
                /\ ~jsonschema_validate("dict", DOMAIN resp.hdrs, header_schema)
             THEN "InvalidHTTPResponseHeader"
        ELSE ""

\* the name of the exception validate_response raises, or ""
validate_response(schema, resp, body) ==
    LET status == expected_success(schema.status_code, resp.status)
        body_schema == schema.response_body
        header_schema == schema.response_header
    IN  IF resp.status \notin HTTP_SUCCESS THEN ""
        ELSE IF status # "" THEN status
        ELSE IF body_schema.kind = "schema"
                /\ ~jsonschema_validate(body.kind, Keys(body), body_schema)
             THEN "InvalidHTTPResponseBody"
        ELSE IF body_schema.kind # "schema" /\ Truthy(body)
             THEN "InvalidHTTPResponseBody"
        ELSE IF header_schema.kind = "schema"
                /\ ~jsonschema_validate("dict", DOMAIN resp.hdrs, header_schema)
             THEN "InvalidHTTPResponseHeader"
        ELSE ""

\* ------------------------------------------------------------------ filters

\* api_version = None
None == "<None>"

\* the filters property with the skip_path entry always written
filters_alwaysSkip(service, endpoint_type, region, api_version, _skip_path) ==
    LET _filters == [k \in {"service", "endpoint_type", "region"} |->
                        CASE k = "service"       -> service
                          [] k = "endpoint_type" -> endpoint_type
                          [] k = "region"        -> region]
        versioned == IF api_version # None
                     THEN Update(_filters, [k \in {"api_version"} |-> api_version])
                     ELSE _filters
    IN  Update(versioned, [k \in {"skip_path"} |-> _skip_path])

\* the filters property of a client with these attributes
filters(service, endpoint_type, region, api_version, _skip_path) ==
    LET _filters == [k \in {"service", "endpoint_type", "region"} |->
                        CASE k = "service"       -> service
                          [] k = "endpoint_type" -> endpoint_type
                          [] k = "region"        -> region]
        versioned == IF api_version # None
                     THEN Update(_filters, [k \in {"api_version"} |-> api_version])
                     ELSE _filters
    IN  IF _skip_path
        THEN Update(versioned, [k \in {"skip_path"} |-> _skip_path])
        ELSE versioned

\* ----------------------------------------------- wait_for_resource_deletion

\* is_resource_deleted as the base client has it, and one that never
\* answers true; any other value is the number of false answers given
\* before the first true one
Unimplemented == -2

Never == -1

\* is_resource_deleted(id) on the poll after `polls` earlier ones
is_resource_deleted(after, polls) ==
    IF after = Unimplemented THEN Raise("NotImplementedError")
    ELSE Ok(after # Never /\ polls >= after)

\* one turn of the loop with the timeout test before the test of the poll
wait_for_resource_deletion_timeoutFirst(after, polls, elapsed, timeout) ==
    LET deleted == is_resource_deleted(after, polls)
    IN  IF deleted.exc # "" THEN [next |-> "raise", exc |-> deleted.exc]
        ELSE IF elapsed >= timeout THEN [next |-> "raise", exc |-> "TimeoutException"]
        ELSE IF deleted.val THEN [next |-> "return", exc |-> ""]
        ELSE [next |-> "sleep", exc |-> ""]

\* one turn of the loop with '>' for '>=' in the timeout test
wait_for_resource_deletion_strict(after, polls, elapsed, timeout) ==
    LET deleted == is_resource_deleted(after, polls)
    IN  IF deleted.exc # "" THEN [next |-> "raise", exc |-> deleted.exc]
        ELSE IF deleted.val THEN [next |-> "return", exc |-> ""]
        ELSE IF elapsed > timeout THEN [next |-> "raise", exc |-> "TimeoutException"]
        ELSE [next |-> "sleep", exc |-> ""]

\* one turn of the loop of wait_for_resource_deletion: the poll, then the
\* timeout test on the seconds elapsed since start_time
wait_for_resource_deletion(after, polls, elapsed, timeout) ==
    LET deleted == is_resource_deleted(after, polls)
    IN  IF deleted.exc # "" THEN [next |-> "raise", exc |-> deleted.exc]
        ELSE IF deleted.val THEN [next |-> "return", exc |-> ""]
        ELSE IF elapsed >= timeout THEN [next |-> "raise", exc |-> "TimeoutException"]
        ELSE [next |-> "sleep", exc |-> ""]

\* ------------------------------------------------------------------ inputs

Fake == <<"f", "a", "k", "e">>

QuotaExceeded == <<"Q", "u", "o", "t", "a", " ">> \o Exceed \o <<"e", "d">>

MsgDict(msg) == JDict(<<KV("message", msg)>>)

OverLimitOnly(msg) == JDict(<<KV("overLimit", MsgDict(msg))>>)

OverLimitAnd(over) == JDict(<<KV("resp_body", JStr(Fake)), KV("overLimit", over)>>)

\* decoded bodies of the 413 family
LimitBodies ==
    { OverLimitAnd(MsgDict(JStr(Fake))),
      OverLimitAnd(MsgDict(JStr(QuotaExceeded))),
      OverLimitOnly(JStr(Fake)),
      OverLimitOnly(JStr(QuotaExceeded)),
      OverLimitAnd(JDict(<<KV("code", JNum(413))>>)),
      OverLimitAnd(JDict(<<>>)),
      OverLimitAnd(JStr(QuotaExceeded)),
      OverLimitAnd(MsgDict(JNum(5))),
      OverLimitAnd(MsgDict(JList(<<JStr(Exceed)>>))),
      JDict(<<KV("wrapper", OverLimitAnd(MsgDict(JStr(Fake))))>>) }

\* decoded bodies of the shapes the normalizer tells apart
ShapeBodies ==
    { JDict(<<>>),
      JDict(<<KV("one_top_key", JStr(Fake))>>),
      JDict(<<KV("one_top_key", JNum(1))>>),
      JDict(<<KV("one_top_key", JNull)>>),
      JDict(<<KV("body_list", JList(<<JStr(Fake), JNum(2)>>))>>),
      JDict(<<KV("body_list", JList(<<>>))>>),
      JDict(<<KV("body_dict", JDict(<<KV("a", JNum(1)), KV("b", JNum(2))>>))>>),
      JDict(<<KV("body_dict", JDict(<<>>))>>),
      JDict(<<KV("k1", JStr(Fake)), KV("k2", JStr(Fake))>>),
      JDict(<<KV("body_dict", JDict(<<KV("a", JNum(1))>>)), KV("second_key", JStr(<<>>))>>),
      JList(<<JNum(1)>>),
      JList(<<>>),
      JStr(Fake),
      JNum(5),
      JNull }

\* decoded bodies of the 500/501 family
FaultBodies ==
    { JDict(<<KV("computeFault", MsgDict(JStr(Fake)))>>),
      JDict(<<KV("computeFault", MsgDict(JStr(Fake))), KV("code", JNum(500))>>),
      JDict(<<KV("cloudServersFault", JDict(<<KV("code", JNum(500))>>)), KV("x", JNum(1))>>),
      JDict(<<KV("error", JStr(Fake)), KV("x", JNum(1))>>),
      JDict(<<KV("message", JStr(Fake)), KV("x", JNum(1))>>) }

Values == LimitBodies \cup ShapeBodies \cup FaultBodies

\* the raw bodies handed to the classifier and to the normalizer
RawBodies == {RawJson(v) : v \in Values} \cup {RawGarbage, RawEmpty}

\* the raw bodies the transport delivers
TransportBodies ==
    { RawEmpty, RawGarbage,
      RawJson(OverLimitAnd(MsgDict(JStr(Fake)))),
      RawJson(OverLimitAnd(MsgDict(JStr(QuotaExceeded)))),
      RawJson(OverLimitOnly(JStr(Fake))),
      RawJson(OverLimitAnd(JStr(QuotaExceeded))),
      RawJson(JDict(<<>>)),
      RawJson(JDict(<<KV("body_list", JList(<<JStr(Fake), JNum(2)>>))>>)) }

Statuses == {100, 200, 204, 304, 399, 400, 401, 402, 403, 404, 405, 409, 413,
             415, 422, 500, 501, 503}

TransportStatuses == {100, 200, 204, 205, 400, 402, 404, 413, 500}

Absent == "<absent>"

ContentTypes == {Absent, "application/json", "Application/JSON",
                 "application/json; charset=utf-8", "text/plain",
                 "text/html; charset=utf-8", "fake_enc"}

TransportContentTypes == {Absent, "application/json", "text/plain", "fake_enc"}

RetryAfters == {Absent, HttpDate} \cup {ToString(i) : i \in 1..MaxDelay}

\* the header mapping with the given content-type and retry-after texts
Headers(ctype, after) ==
    [k \in (IF ctype = Absent THEN {} ELSE {"content-type"})
           \cup (IF after = Absent THEN {} ELSE {"retry-after"}) |->
        IF k = "content-type" THEN ctype ELSE after]

Responses ==
    {Response(st, Headers(ct, ra)) : st \in Statuses, ct \in ContentTypes, ra \in RetryAfters}

TransportResponses ==
    {Response(st, Headers(ct, ra)) :
        st \in TransportStatuses, ct \in TransportContentTypes, ra \in RetryAfters}

Methods == {"GET", "HEAD"}

\* the attributes a client is constructed with, and the api_version of
\* its class
Services == {"compute", "identity", "volume"}

EndpointTypes == {"publicURL", "internalURL", "adminURL"}

Regions == {"RegionOne", "RegionTwo"}

ApiVersions == {None, "v1", "v2"}

\* the method, status, header names and body given to response_checker
CheckedMethods == {"GET", "get", "HEAD", "head", "Head"}

CheckedStatuses == {100, 199, 200, 204, 205, 304, 400, 404, 500}

CheckedHeaderNames ==
    { {}, {"status"}, {"status", "date"}, {"status", "retry-after", "via"},
      {"status", "content-type"}, {"status", "date", "content-length"},
      {"content-location"} }

CheckedResponses ==
    {Response(st, [k \in ks |-> IF k = "status" THEN ToString(st) ELSE "value"]) :
        st \in CheckedStatuses, ks \in CheckedHeaderNames}

CheckedBodies == {RawEmpty, RawGarbage, RawJson(JDict(<<>>))}

\* the response schemas, responses and decoded bodies given to
\* validate_response
BodySchemas == {NoSchema, EmptySchema, TypeSchema("object", {"server"}),
                TypeSchema("array", {})}

HeaderSchemas == {NoSchema, EmptySchema, TypeSchema("object", {"location"})}

Schemas ==
    [status_code : {Expected(FALSE, <<200>>), Expected(TRUE, <<200, 204>>),
                    Expected(FALSE, <<404>>)},
     response_body : BodySchemas,
     response_header : HeaderSchemas]

ValidatedResponses ==
    {Response(st, [k \in ks |-> "value"]) :
        st \in {199, 200, 204, 207, 208, 404}, ks \in {{}, {"location"}}}

ValidatedBodies ==
    {JNull, JStr(<<>>), JDict(<<>>), JDict(<<KV("server", JStr(Fake))>>),
     JDict(<<KV("image", JStr(Fake))>>), JList(<<JNum(1)>>)}

\* the status codes given to expected_success, as expected and as read
Codes == {200, 202, 204, 207, 208, 404}

ReadCodes == Codes \cup {100, 399, 400, 500}

\* expected_code: one code, or a list of at most two codes
ExpectedCodes ==
    {Expected(FALSE, <<c>>) : c \in Codes}
        \cup {Expected(TRUE, <<>>)}
        \cup {Expected(TRUE, <<c>>) : c \in Codes}
        \cup {Expected(TRUE, <<c, d>>) : c \in Codes, d \in Codes}

HeaderMap(key, value) == [k \in {key} |-> value]

\* the headers and extra_headers arguments of a call to request()
Calls ==
    { [given |-> FALSE, map |-> EmptyMap, extra |-> FALSE],
      [given |-> TRUE, map |-> EmptyMap, extra |-> FALSE],
      [given |-> TRUE, map |-> HeaderMap("X-Configuration-Session", "session_id"), extra |-> TRUE],
      [given |-> TRUE, map |-> HeaderMap("Content-Type", "text/plain"), extra |-> TRUE],
      [given |-> TRUE, map |-> HeaderMap("X-Auth-Token", "secret"), extra |-> FALSE] }

Providers == {"same", "token"}

\* ------------------------------------------------------------------- state

VARIABLES
    provider,    \* the kind of the client's auth provider
    pc,          \* "idle", "awaiting" (a dispatch is with the transport),
                 \* "sleeping" (in time.sleep of the retry loop), "done"
    op,          \* the operation in progress or just finished
    call,        \* request(): [method, given, extra] of the call
    callerMap,   \* request(): the caller's headers mapping, as it is now
    headers,     \* request(): the local headers mapping, as it is now
    req_headers, \* _request(): the mapping auth_request returned
    authLog,     \* the headers handed to auth_request, one per attempt
    retry,       \* request(): the local retry
    dispatches,  \* number of times the transport was given the request
    sleeps,      \* the delays slept, in order
    resp,        \* the last response descriptor
    resp_body,   \* the last raw body
    outcome,     \* how the operation ended: [kind, exc, payload, ret]
    expected_code, \* expected_success(): the expected_code argument
    read_code,   \* expected_success(): the read_code argument
    schema,      \* validate_response(): the schema argument
    checked_body, \* validate_response(): the decoded body argument
    build_interval, \* the client's build_interval
    build_timeout,  \* the client's build_timeout
    deleted_after,  \* how the client's is_resource_deleted answers
    now,         \* the clock, in whole seconds
    start_time,  \* wait_for_resource_deletion(): the local start_time
    polls,       \* number of calls of is_resource_deleted so far
    service,     \* the client's service
    endpoint_type, \* the client's endpoint_type
    region,      \* the client's region
    api_version, \* the client's api_version, or None
    _skip_path   \* the client's _skip_path

\* the arguments of the utility methods
utility == <<expected_code, read_code, schema, checked_body>>

\* the state of deletion polling
polling == <<build_interval, build_timeout, deleted_after, now, start_time, polls>>

\* the attributes the routing filters are made of
routing == <<service, endpoint_type, region, api_version, _skip_path>>

vars == <<provider, pc, op, call, callerMap, headers, req_headers, authLog,
          retry, dispatches, sleeps, resp, resp_body, outcome, utility, polling,
          routing>>

NoResponse == Response(0, EmptyMap)

NoCall == [method |-> "", given |-> FALSE, extra |-> FALSE]

NoRet == [resp |-> NoResponse, body |-> RawEmpty]

NoExpected == Expected(FALSE, <<>>)

NoResponseSchema ==
    [status_code |-> NoExpected, response_body |-> NoSchema, response_header |-> NoSchema]

NoOutcome == [kind |-> "none", exc |-> "", payload |-> PNone, ret |-> NoRet]

RaiseOutcome(e, p) == [kind |-> "raise", exc |-> e, payload |-> p, ret |-> NoRet]

ReturnOutcome(p, r, b) ==
    [kind |-> "return", exc |-> "", payload |-> p, ret |-> [resp |-> r, body |-> b]]

Idle ==
    /\ pc = "idle"
    /\ op = ""
    /\ call = NoCall
    /\ callerMap = EmptyMap
    /\ headers = EmptyMap
    /\ req_headers = EmptyMap
    /\ authLog = <<>>
    /\ retry = 0
    /\ dispatches = 0
    /\ sleeps = <<>>
    /\ resp = NoResponse
    /\ resp_body = RawEmpty
    /\ outcome = NoOutcome
    /\ expected_code = NoExpected
    /\ read_code = 0
    /\ schema = NoResponseSchema
    /\ checked_body = JNull
    /\ build_interval = 1
    /\ build_timeout = 60
    /\ deleted_after = Unimplemented
    /\ now = 0
    /\ start_time = 0
    /\ polls = 0

Init ==
    /\ provider \in Providers
    /\ service = "compute"
    /\ endpoint_type = "publicURL"
    /\ region = "RegionOne"
    /\ api_version = None
    /\ _skip_path = FALSE
    /\ Idle

\* a client constructed with any of the routing attributes
RoutingInit ==
    /\ provider \in Providers
    /\ service \in Services
    /\ endpoint_type \in EndpointTypes
    /\ region \in Regions
    /\ api_version \in ApiVersions
    /\ _skip_path = FALSE
    /\ Idle

\* ----------------------------------------------------------------- actions

\* _request() up to the transport: authenticate with the current headers
\* mapping and hand the request to the transport
Dispatch ==
    /\ authLog' = Append(authLog, headers')
    /\ req_headers' = auth_request(provider, headers')
    /\ dispatches' = dispatches + 1
    /\ pc' = "awaiting"

\* request(method, url, extra_headers, headers, body) up to the first
\* dispatch
RequestFor(m, c) ==
    /\ op' = "request"
    /\ call' = [method |-> m, given |-> c.given, extra |-> c.extra]
    /\ callerMap' = c.map
    /\ headers' = RequestHeaders(c)
    /\ retry' = 0
    /\ Dispatch
    /\ UNCHANGED <<provider, sleeps, resp, resp_body, outcome, utility, polling, routing>>

\* What request() does with the response r and body b of the current
\* attempt once response_checker has passed: [next, exc, delay], next being
\* "sleep" (retry after delay), "raise" or "return".
Settle(r, b) ==
    LET cond == LoopCond(r, b, retry)
        delay == int(r.hdrs["retry-after"])
        checked == _error_checker(r, b)
    IN  IF cond.exc # "" THEN [next |-> "raise", exc |-> cond.exc, payload |-> PNone, delay |-> 0]
        ELSE IF cond.val
             THEN IF delay.exc # ""
                  THEN [next |-> "raise", exc |-> delay.exc, payload |-> PNone, delay |-> 0]
                  ELSE [next |-> "sleep", exc |-> "", payload |-> PNone, delay |-> delay.val]
             ELSE IF checked.exc # ""
                  THEN [next |-> "raise", exc |-> checked.exc, payload |-> checked.val, delay |-> 0]
                  ELSE [next |-> "return", exc |-> "", payload |-> PNone, delay |-> 0]

\* RespondWith with response_checker applied after the retry decision
RespondWith_checkAfterLoop(r, b) ==
    /\ resp' = r
    /\ resp_body' = b
    /\ req_headers' = Redact(req_headers)
    /\ headers' = IF provider = "same" THEN Redact(headers) ELSE headers
    /\ callerMap' = IF provider = "same" /\ SharesCallerMap(call)
                    THEN Redact(callerMap) ELSE callerMap
    /\ LET violated == response_checker(call.method, r, b)
           s == Settle(r, b)
       IN  IF s.next = "sleep"
           THEN /\ retry' = retry + 1
                /\ sleeps' = Append(sleeps, s.delay)
                /\ pc' = "sleeping"
                /\ UNCHANGED outcome
           ELSE IF violated # ""
           THEN /\ pc' = "done"
                /\ outcome' = RaiseOutcome(violated, PNone)
                /\ UNCHANGED <<retry, sleeps>>
           ELSE CASE s.next = "raise" ->
                       /\ pc' = "done"
                       /\ outcome' = RaiseOutcome(s.exc, s.payload)
                       /\ retry' = IF LoopCond(r, b, retry).exc = "" /\ LoopCond(r, b, retry).val
                                   THEN retry + 1 ELSE retry
                       /\ UNCHANGED sleeps
                  [] s.next = "return" ->
                       /\ pc' = "done"
                       /\ outcome' = ReturnOutcome(PNone, r, b)
                       /\ UNCHANGED <<retry, sleeps>>
    /\ UNCHANGED <<provider, op, call, authLog, dispatches, utility, polling, routing>>

\* The transport answers the current attempt with (r, b): the rest of
\* _request() (log, response_checker), then request() up to its next sleep
\* or to its end.
RespondWith(r, b) ==
    /\ resp' = r
    /\ resp_body' = b
    /\ req_headers' = Redact(req_headers)
    /\ headers' = IF provider = "same" THEN Redact(headers) ELSE headers
    /\ callerMap' = IF provider = "same" /\ SharesCallerMap(call)
                    THEN Redact(callerMap) ELSE callerMap
    /\ LET violated == response_checker(call.method, r, b)
           s == Settle(r, b)
       IN  IF violated # ""
           THEN /\ pc' = "done"
                /\ outcome' = RaiseOutcome(violated, PNone)
                /\ UNCHANGED <<retry, sleeps>>
           ELSE CASE s.next = "sleep" ->
                       /\ retry' = retry + 1
                       /\ sleeps' = Append(sleeps, s.delay)
                       /\ pc' = "sleeping"
                       /\ UNCHANGED outcome
                  [] s.next = "raise" ->
                       /\ pc' = "done"
                       /\ outcome' = RaiseOutcome(s.exc, s.payload)
                       /\ retry' = IF LoopCond(r, b, retry).exc = "" /\ LoopCond(r, b, retry).val
                                   THEN retry + 1 ELSE retry
                       /\ UNCHANGED sleeps
                  [] s.next = "return" ->
                       /\ pc' = "done"
                       /\ outcome' = ReturnOutcome(PNone, r, b)
                       /\ UNCHANGED <<retry, sleeps>>
    /\ UNCHANGED <<provider, op, call, authLog, dispatches, utility, polling, routing>>

\* time.sleep(delay) returns and the loop body re-issues the request
Wake ==
    /\ pc = "sleeping"
    /\ headers' = headers
    /\ Dispatch
    /\ UNCHANGED <<provider, op, call, callerMap, retry, sleeps, resp, resp_body, outcome,
                   utility, polling, routing>>

\* a direct call of _error_checker(method, url, headers, body, resp, resp_body)
ErrorCheckOf(r, b) ==
    /\ op' = "_error_checker"
    /\ resp' = r
    /\ resp_body' = b
    /\ LET checked == _error_checker(r, b)
       IN  outcome' = IF checked.exc # ""
                      THEN RaiseOutcome(checked.exc, checked.val)
                      ELSE ReturnOutcome(PNone, NoResponse, RawEmpty)
    /\ pc' = "done"
    /\ UNCHANGED <<provider, call, callerMap, headers, req_headers, authLog,
                   retry, dispatches, sleeps, utility, polling, routing>>

\* a direct call of _parse_resp(body)
ParseRespOf(b) ==
    /\ op' = "_parse_resp"
    /\ resp_body' = b
    /\ LET parsed == _parse_resp(b)
       IN  outcome' = IF parsed.exc # ""
                      THEN RaiseOutcome(parsed.exc, PNone)
                      ELSE ReturnOutcome(PVal(parsed.val), NoResponse, RawEmpty)
    /\ pc' = "done"
    /\ UNCHANGED <<provider, call, callerMap, headers, req_headers, authLog,
                   retry, dispatches, sleeps, resp, utility, polling, routing>>

\* a direct call of response_checker(method, resp, resp_body)
ResponseCheckOf(mt, r, b) ==
    /\ op' = "response_checker"
    /\ call' = [method |-> mt, given |-> FALSE, extra |-> FALSE]
    /\ resp' = r
    /\ resp_body' = b
    /\ LET violated == response_checker(mt, r, b)
       IN  outcome' = IF violated # ""
                      THEN RaiseOutcome(violated, PNone)
                      ELSE ReturnOutcome(PNone, NoResponse, RawEmpty)
    /\ pc' = "done"
    /\ UNCHANGED <<provider, callerMap, headers, req_headers, authLog,
                   retry, dispatches, sleeps, utility, polling, routing>>

\* a direct call of expected_success(expected_code, read_code)
ExpectedSuccessOf(e, c) ==
    /\ op' = "expected_success"
    /\ expected_code' = e
    /\ read_code' = c
    /\ LET raised == expected_success(e, c)
       IN  outcome' = IF raised # ""
                      THEN RaiseOutcome(raised, PNone)
                      ELSE ReturnOutcome(PNone, NoResponse, RawEmpty)
    /\ pc' = "done"
    /\ UNCHANGED <<provider, call, callerMap, headers, req_headers, authLog,
                   retry, dispatches, sleeps, resp, resp_body, schema, checked_body, polling, routing>>

\* a call of validate_response(schema, resp, body)
ValidateResponseOf(s, r, v) ==
    /\ op' = "validate_response"
    /\ schema' = s
    /\ resp' = r
    /\ checked_body' = v
    /\ LET raised == validate_response(s, r, v)
       IN  outcome' = IF raised # ""
                      THEN RaiseOutcome(raised, PNone)
                      ELSE ReturnOutcome(PNone, NoResponse, RawEmpty)
    /\ pc' = "done"
    /\ UNCHANGED <<provider, call, callerMap, headers, req_headers, authLog,
                   retry, dispatches, sleeps, resp_body, expected_code, read_code, polling, routing>>

\* wait_for_resource_deletion(id) up to its loop, on a client whose
\* build_interval and build_timeout the caller has set to i and t and whose
\* is_resource_deleted answers as k says
WaitForResourceDeletionOf(i, t, k) ==
    /\ op' = "wait_for_resource_deletion"
    /\ build_interval' = i
    /\ build_timeout' = t
    /\ deleted_after' = k
    /\ start_time' = now
    /\ polls' = 0
    /\ pc' = "polling"
    /\ UNCHANGED <<provider, call, callerMap, headers, req_headers, authLog,
                   retry, dispatches, sleeps, resp, resp_body, outcome, utility, now,
                   routing>>

\* one turn of the loop: is_resource_deleted is called and takes d seconds,
\* then the function returns, raises, or goes on to sleep
PollTaking(d) ==
    /\ now' = now + d
    /\ polls' = polls + 1
    /\ LET turn == wait_for_resource_deletion(deleted_after, polls, now' - start_time,
                                              build_timeout)
       IN  CASE turn.next = "raise" ->
                  /\ pc' = "done"
                  /\ outcome' = RaiseOutcome(turn.exc, PNone)
             [] turn.next = "return" ->
                  /\ pc' = "done"
                  /\ outcome' = ReturnOutcome(PNone, NoResponse, RawEmpty)
             [] turn.next = "sleep" ->
                  /\ pc' = "pausing"
                  /\ UNCHANGED outcome
    /\ UNCHANGED <<provider, op, call, callerMap, headers, req_headers, authLog,
                   retry, dispatches, sleeps, resp, resp_body, utility,
                   build_interval, build_timeout, deleted_after, start_time, routing>>

\* time.sleep(self.build_interval) returns
Sleep ==
    /\ pc = "pausing"
    /\ now' = now + build_interval
    /\ sleeps' = Append(sleeps, build_interval)
    /\ pc' = "polling"
    /\ UNCHANGED <<provider, op, call, callerMap, headers, req_headers, authLog,
                   retry, dispatches, resp, resp_body, outcome, utility,
                   build_interval, build_timeout, deleted_after, start_time, polls,
                   routing>>

\* skip_path()
SkipPath ==
    /\ pc = "idle"
    /\ _skip_path' = TRUE
    /\ UNCHANGED <<provider, pc, op, call, callerMap, headers, req_headers, authLog,
                   retry, dispatches, sleeps, resp, resp_body, outcome, utility, polling,
                   service, endpoint_type, region, api_version>>

\* reset_path()
ResetPath ==
    /\ pc = "idle"
    /\ _skip_path' = FALSE
    /\ UNCHANGED <<provider, pc, op, call, callerMap, headers, req_headers, authLog,
                   retry, dispatches, sleeps, resp, resp_body, outcome, utility, polling,
                   service, endpoint_type, region, api_version>>

\* the caller takes the result; the client is ready for the next call, its
\* build_interval, build_timeout and is_resource_deleted as constructed
Finish ==
    /\ pc = "done"
    /\ pc' = "idle"
    /\ op' = ""
    /\ call' = NoCall
    /\ callerMap' = EmptyMap
    /\ headers' = EmptyMap
    /\ req_headers' = EmptyMap
    /\ authLog' = <<>>
    /\ retry' = 0
    /\ dispatches' = 0
    /\ sleeps' = <<>>
    /\ resp' = NoResponse
    /\ resp_body' = RawEmpty
    /\ outcome' = NoOutcome
    /\ expected_code' = NoExpected
    /\ read_code' = 0
    /\ schema' = NoResponseSchema
    /\ checked_body' = JNull
    /\ build_interval' = 1
    /\ build_timeout' = 60
    /\ deleted_after' = Unimplemented
    /\ now' = 0
    /\ start_time' = 0
    /\ polls' = 0
    /\ UNCHANGED <<provider, routing>>

\* a caller calls request() with a method and headers arguments
Request ==
    /\ pc = "idle"
    /\ \E m \in Methods, c \in Calls : RequestFor(m, c)

\* the transport delivers some response to the attempt in flight
Respond ==
    /\ pc = "awaiting"
    /\ \E r \in TransportResponses, b \in TransportBodies : RespondWith(r, b)

ErrorCheck ==
    /\ pc = "idle"
    /\ \E r \in Responses, b \in RawBodies : ErrorCheckOf(r, b)

ParseResp ==
    /\ pc = "idle"
    /\ \E b \in RawBodies : ParseRespOf(b)

ResponseCheck ==
    /\ pc = "idle"
    /\ \E mt \in CheckedMethods, r \in CheckedResponses, b \in CheckedBodies :
          ResponseCheckOf(mt, r, b)

ExpectedSuccess ==
    /\ pc = "idle"
    /\ \E e \in ExpectedCodes, c \in ReadCodes : ExpectedSuccessOf(e, c)

ValidateResponse ==
    /\ pc = "idle"
    /\ \E s \in Schemas, r \in ValidatedResponses, v \in ValidatedBodies :
          ValidateResponseOf(s, r, v)

WaitForResourceDeletion ==
    /\ pc = "idle"
    /\ \E i \in 1..MaxInterval, t \in 1..MaxTimeout,
          k \in (0..MaxFalse) \cup {Never, Unimplemented} :
          WaitForResourceDeletionOf(i, t, k)

Poll ==
    /\ pc = "polling"
    /\ \E d \in 0..MaxPollTime : PollTaking(d)

Next ==
    \/ Request
    \/ Respond
    \/ Wake
    \/ ErrorCheck
    \/ ParseResp
    \/ ResponseCheck
    \/ ExpectedSuccess
    \/ ValidateResponse
    \/ WaitForResourceDeletion
    \/ Poll
    \/ Sleep
    \/ Finish

Spec == Init /\ [][Next]_vars

\* the routing attributes and their two setters, for any client
RoutingNext ==
    \/ SkipPath
    \/ ResetPath

RoutingSpec == RoutingInit /\ [][RoutingNext]_vars

TypeOK ==
    /\ provider \in Providers
    /\ pc \in {"idle", "awaiting", "sleeping", "polling", "pausing", "done"}
    /\ retry \in 0..MAX_RECURSION_DEPTH
    /\ outcome.kind \in {"none", "return", "raise"}
    /\ outcome.exc \in TypedErrors \cup GenericErrors \cup OtherErrors \cup {""}

\* ------------------------------------------------------------- properties

\* a direct call of the classifier has ended
Classified == pc = "done" /\ op = "_error_checker"

\* a direct call of the normalizer has ended
Normalized == pc = "done" /\ op = "_parse_resp"

\* the content type the classifier resolves, in lower case
CtypeOf(r) ==
    lower(IF HasHeader(r, "content-type") THEN r.hdrs["content-type"] ELSE "application/json")

\* the text of overLimit.message in a decoded value, when there is one
HasLimitMessage(v) ==
    /\ v.kind = "dict"
    /\ HasKey(v, "overLimit")
    /\ Lookup(v, "overLimit").kind = "dict"
    /\ HasKey(Lookup(v, "overLimit"), "message")
    /\ Lookup(Lookup(v, "overLimit"), "message").kind = "str"

LimitMessage(v) == Lookup(Lookup(v, "overLimit"), "message").s

MergedCall == op = "request" /\ call.given /\ call.extra /\ Len(authLog) >= 1

\* C2 as stated: with a headers mapping and extra_headers=True the headers
\* sent are the union of the caller's headers and the defaults, and on every
\* key present in both the caller's value is the one sent.
C2_AsStated ==
    MergedCall =>
        /\ DOMAIN authLog[1] = DOMAIN callerMap \cup DOMAIN get_headers
        /\ \A k \in DOMAIN callerMap : authLog[1][k] = callerMap[k]
        /\ \A k \in DOMAIN get_headers \ DOMAIN callerMap : authLog[1][k] = get_headers[k]

\* C2 (amended): with a headers mapping and extra_headers=True the headers
\* request() passes on for its first attempt are the union of the caller's
\* headers and the default Content-Type/Accept headers, and on every key
\* present in both the default value is the one sent: the caller's values are
\* kept only for keys that are not default keys.
C2_DefaultsWin ==
    MergedCall =>
        /\ DOMAIN authLog[1] = DOMAIN callerMap \cup DOMAIN get_headers
        /\ \A k \in DOMAIN get_headers : authLog[1][k] = get_headers[k]
        /\ \A k \in DOMAIN callerMap \ DOMAIN get_headers : authLog[1][k] = callerMap[k]

\* C2 witness: a call whose headers carry their own Content-Type was
\* dispatched with the default Content-Type
C2_Witness ==
    /\ MergedCall
    /\ "Content-Type" \in DOMAIN callerMap
    /\ callerMap["Content-Type"] = "text/plain"
    /\ authLog[1]["Content-Type"] = "application/json"

\* the error kind the status table of the classifier names for a status
MappedKinds(status) ==
    CASE status = 401 -> {"Unauthorized"}
      [] status = 403 -> {"Forbidden"}
      [] status = 404 -> {"NotFound"}
      [] status = 400 -> {"BadRequest"}
      [] status = 409 -> {"Conflict"}
      [] status = 415 -> {"InvalidContentType"}
      [] status = 422 -> {"UnprocessableEntity"}
      [] status = 500 -> {"ServerFault"}
      [] status = 501 -> {"NotImplemented"}
      [] status = 413 -> {"OverLimit", "RateLimitExceeded"}
      [] OTHER        -> {"UnexpectedResponseCode"}

\* C3 as stated: for a status >= 400 with a recognized content type the
\* classifier raises exactly the error kind mapped to the status; for a
\* status < 400 it returns without raising.
C3_AsStated ==
    Classified =>
        IF resp.status < 400 THEN outcome.kind = "return"
        ELSE CtypeOf(resp) \in JSON_ENC \cup TXT_ENC =>
                /\ outcome.kind = "raise"
                /\ outcome.exc \in MappedKinds(resp.status)

\* C7 as stated: for every response with status >= 400, whatever its content
\* type and body, the classifier raises an error of the typed taxonomy and
\* never a generic exception.
C7_AsStated ==
    (Classified /\ resp.status >= 400) =>
        /\ outcome.kind = "raise"
        /\ outcome.exc \in TypedErrors

\* C4: a request() call hands the request to the transport at most
\* MAX_RECURSION_DEPTH + 1 = 3 times, with at most 2 sleeps, and once the
\* third attempt has been answered the call has ended.
C4_AtMostThreeDispatches ==
    /\ dispatches <= MAX_RECURSION_DEPTH + 1
    /\ op = "request" => Len(sleeps) <= MAX_RECURSION_DEPTH
    /\ (op = "request" /\ dispatches = MAX_RECURSION_DEPTH + 1 /\ pc # "awaiting")
            => (pc = "done" /\ outcome.kind \in {"return", "raise"})

\* C4 witness: a call ended after three dispatches whose last response was
\* again a retryable 413
C4_Witness ==
    /\ op = "request"
    /\ pc = "done"
    /\ dispatches = 3
    /\ resp.status = 413
    /\ HasHeader(resp, "retry-after")
    /\ resp_body = RawJson(OverLimitAnd(MsgDict(JStr(Fake))))
    /\ outcome.kind = "raise"

\* the retry loop judges (r, b) a retryable rate limit: status 413, a
\* retry-after header, and a normalized body that is not an absolute limit
Retryable(r, b) ==
    /\ r.status = 413
    /\ HasHeader(r, "retry-after")
    /\ _parse_resp(b).exc = ""
    /\ is_absolute_limit(r, PVal(_parse_resp(b).val)) = [exc |-> "", val |-> FALSE]

\* C5, the state part: request() sleeps only on a retryable response, for
\* the integer value of that response's retry-after; every dispatch after the
\* first has exactly one sleep before it, and no sleep follows the last one.
C5_SleepThenDispatch ==
    /\ pc = "sleeping" =>
            /\ Retryable(resp, resp_body)
            /\ Len(sleeps) = dispatches
            /\ ToString(sleeps[Len(sleeps)]) = resp.hdrs["retry-after"]
    /\ (op = "request" /\ pc \in {"awaiting", "done"}) => Len(sleeps) = dispatches - 1

\* C5, the step part: a dispatch after the first happens only out of the
\* sleep; a response that is not retryable ends the call with no sleep.
C5_Step ==
    /\ (dispatches' > dispatches /\ dispatches > 0) =>
            (pc = "sleeping" /\ dispatches' = dispatches + 1 /\ sleeps' = sleeps)
    /\ (pc = "awaiting" /\ pc' # "awaiting" /\ ~Retryable(resp', resp_body')) =>
            (pc' = "done" /\ sleeps' = sleeps /\ dispatches' = dispatches)
    /\ (pc = "awaiting" /\ pc' = "sleeping") => sleeps' # sleeps

\* C5: request() re-dispatches only right after a response with status 413,
\* a retry-after header and a body judged not an absolute limit; each
\* re-dispatch is preceded by exactly one sleep of the integer retry-after
\* value of that response; any other response causes no sleep and no further
\* dispatch.
C5_RetryOnlyOnRateLimit == [](C5_SleepThenDispatch) /\ [][C5_Step]_vars

\* C5 witness: the second retry is asleep after two retryable responses with
\* different retry-after values
C5_Witness ==
    /\ pc = "sleeping"
    /\ sleeps = <<1, 2>>
    /\ dispatches = 2
    /\ resp.hdrs["retry-after"] = "2"

\* C6 as stated: request() returns only when the last response has status
\* < 400, and then returns that response and raw body as delivered; when the
\* last response has status >= 400 the call raises an error of the typed
\* taxonomy.
C6_AsStated ==
    (op = "request" /\ pc = "done") =>
        /\ outcome.kind = "return" =>
                (resp.status < 400 /\ outcome.ret = [resp |-> resp, body |-> resp_body])
        /\ resp.status >= 400 =>
                (outcome.kind = "raise" /\ outcome.exc \in TypedErrors)

\* C8: applied to a decoded mapping, the normalizer returns the whole mapping
\* when it has more than one top-level key, the inner value when it has one
\* top-level key whose value is a mapping or a list, and the whole mapping
\* when it has one top-level key whose value is a scalar.
C8_UnwrapRule ==
    (Normalized /\ resp_body.text = "json" /\ resp_body.val.kind = "dict"
                /\ Len(resp_body.val.d) >= 1) =>
        LET body == resp_body.val
            inner == body.d[1].v
        IN  /\ outcome.kind = "return"
            /\ outcome.payload =
                 IF Len(body.d) = 1 /\ inner.kind \in {"dict", "list"}
                 THEN PVal(inner) ELSE PVal(body)

\* C8 witness: a single-key body whose value is a list was normalized to
\* that list
C8_Witness ==
    /\ Normalized
    /\ resp_body = RawJson(JDict(<<KV("body_list", JList(<<JStr(Fake), JNum(2)>>))>>))
    /\ outcome.payload = PVal(JList(<<JStr(Fake), JNum(2)>>))

\* C9 as stated: applied to a body that decodes but is neither a multi-key
\* nor a single-key mapping (a mapping with no key in particular), the
\* normalizer returns the decoded value unchanged and does not raise.
C9_AsStated ==
    (Normalized /\ resp_body.text = "json"
                /\ ~(resp_body.val.kind = "dict" /\ Len(resp_body.val.d) >= 1)) =>
        /\ outcome.kind = "return"
        /\ outcome.payload = PVal(resp_body.val)

\* C10: for a status >= 400 with a content type that is neither structured
\* nor plain text the classifier raises InvalidContentType whatever the
\* status; a response with no content-type header is classified exactly as
\* the same response with content type application/json.
C10_ContentType ==
    (Classified /\ resp.status >= 400) =>
        /\ CtypeOf(resp) \notin JSON_ENC \cup TXT_ENC =>
                outcome = RaiseOutcome("InvalidContentType", PStatus(resp.status))
        /\ ~HasHeader(resp, "content-type") =>
                LET same == _error_checker(
                                Response(resp.status,
                                         Update(resp.hdrs, HeaderMap("content-type", "application/json"))),
                                resp_body)
                IN  /\ outcome.exc = same.exc
                    /\ outcome.payload = same.val
                    /\ outcome.exc # "InvalidContentType" \/ resp.status = 415

\* C10 witness: a 404 with an unknown content type was classified as
\* InvalidContentType
C10_Witness ==
    /\ Classified
    /\ resp.status = 404
    /\ HasHeader(resp, "content-type")
    /\ resp.hdrs["content-type"] = "fake_enc"
    /\ outcome.exc = "InvalidContentType"

\* C10 second witness: a 404 with no content-type header was classified by
\* its status
C10_AbsentWitness ==
    /\ Classified
    /\ resp.status = 404
    /\ ~HasHeader(resp, "content-type")
    /\ outcome.exc = "NotFound"

\* C11 as stated: for a 500 or 501 response with a structured content type,
\* InvalidHTTPResponseBody is raised when the body does not decode, and
\* ServerFault (500) or NotImplemented (501) when it does; with a plain-text
\* content type ServerFault/NotImplemented is raised with the raw body.
C11_AsStated ==
    (Classified /\ resp.status \in {500, 501} /\ CtypeOf(resp) \in JSON_ENC \cup TXT_ENC) =>
        LET kind == IF resp.status = 501 THEN "NotImplemented" ELSE "ServerFault"
        IN  IF CtypeOf(resp) \in TXT_ENC
            THEN outcome = RaiseOutcome(kind, PRaw(resp_body))
            ELSE IF json_loads(resp_body).exc # ""
                 THEN outcome.exc = "InvalidHTTPResponseBody"
                 ELSE outcome.exc = kind

\* the set of codes an expected_code argument names
CodesOf(e) == {e.codes[i] : i \in 1..Len(e.codes)}

\* C12: expected_success(expected, observed) raises the configuration
\* assertion error when expected, or an element of the expected list, is
\* outside 200..207, whatever observed is; otherwise InvalidHttpSuccessCode
\* when observed < 400 and observed is not the expected code (not a member
\* of the list); otherwise it returns (so for every observed >= 400).
C12_ExactOutcome ==
    (pc = "done" /\ op = "expected_success") =>
        IF ~(CodesOf(expected_code) \subseteq 200..207)
        THEN outcome.kind = "raise" /\ outcome.exc = "AssertionError"
        ELSE IF read_code < 400 /\ read_code \notin CodesOf(expected_code)
             THEN outcome.kind = "raise" /\ outcome.exc = "InvalidHttpSuccessCode"
             ELSE outcome.kind = "return"

\* expected_success returned for an observed code >= 400 that is not among
\* the two expected codes
C12_Witness ==
    /\ pc = "done" /\ op = "expected_success"
    /\ expected_code.list /\ Len(expected_code.codes) = 2
    /\ read_code >= 400 /\ read_code \notin CodesOf(expected_code)
    /\ outcome.kind = "return"

\* a direct call of response_checker has ended
Checked == pc = "done" /\ op = "response_checker"

\* the request method is HEAD, in some letter case
IsHead(mt) == mt \in {"HEAD", "head", "Head"}

\* C13: response_checker raises ResponseWithNonEmptyBody exactly when the
\* body is non-empty and (the status is 204, 205 or 304, or is below 200, or
\* the method is HEAD in any letter case); a response with status >= 400, an
\* empty body and a method other than HEAD raises nothing.
C13_NonEmptyBody ==
    Checked =>
        /\ (outcome.exc = "ResponseWithNonEmptyBody") <=>
              /\ resp_body # RawEmpty
              /\ \/ resp.status \in {204, 205, 304}
                 \/ resp.status < 200
                 \/ IsHead(call.method)
        /\ (resp.status >= 400 /\ resp_body = RawEmpty /\ ~IsHead(call.method)) =>
              outcome.kind = "return"

\* a 200 answer to a lower-case head request with a body was refused
C13_Witness ==
    /\ Checked
    /\ call.method = "head" /\ resp.status = 200 /\ resp_body # RawEmpty
    /\ outcome.exc = "ResponseWithNonEmptyBody"

\* a bodiless 404 answer to a GET passed the check
C13_ErrorWitness ==
    /\ Checked
    /\ call.method = "GET" /\ resp.status = 404 /\ resp_body = RawEmpty
    /\ outcome.kind = "return"

\* the header names of a response outside the general/response whitelist,
\* the status pseudo-header aside
EntityHeaders(r) ==
    {k \in DOMAIN r.hdrs :
        k # "status" /\ k \notin general_header_lc /\ k \notin response_header_lc}

\* C14 as stated: a 205 response carrying a header outside the whitelist
\* raises ResponseWithEntity; a 205 response with whitelisted headers only
\* and an empty body raises nothing.
C14_AsStated ==
    (Checked /\ resp.status = 205) =>
        /\ EntityHeaders(resp) # {} => outcome.exc = "ResponseWithEntity"
        /\ (EntityHeaders(resp) = {} /\ resp_body = RawEmpty) => outcome.kind = "return"

\* C14, amended: a 205 response with a non-empty body raises
\* ResponseWithNonEmptyBody whatever its headers; with an empty body it
\* raises ResponseWithEntity when a header is outside the whitelist and
\* nothing when all its headers (the status pseudo-header aside) are in it.
C14_EntityAfterBody ==
    (Checked /\ resp.status = 205) =>
        IF resp_body # RawEmpty
        THEN outcome.exc = "ResponseWithNonEmptyBody"
        ELSE IF EntityHeaders(resp) # {}
             THEN outcome.exc = "ResponseWithEntity"
             ELSE outcome.kind = "return"

\* a 205 response with content-type and a body was refused for its body
C14_Witness ==
    /\ Checked /\ resp.status = 205
    /\ "content-type" \in EntityHeaders(resp) /\ resp_body # RawEmpty
    /\ outcome.exc = "ResponseWithNonEmptyBody"

\* a bodiless 205 response with content-type was refused for the header
C14_EntityWitness ==
    /\ Checked /\ resp.status = 205
    /\ "content-type" \in EntityHeaders(resp) /\ resp_body = RawEmpty
    /\ outcome.exc = "ResponseWithEntity"

\* a call of validate_response has ended
Validated == pc = "done" /\ op = "validate_response"

\* the schema's expected code(s) are success codes and the status is one of them
StatusOk ==
    CodesOf(schema.status_code) \subseteq 200..207 /\ resp.status \in CodesOf(schema.status_code)

\* the body passes: it validates against the body schema, or there is no
\* body schema and the body is empty
BodyOk ==
    IF schema.response_body.kind = "schema"
    THEN jsonschema_validate(checked_body.kind, Keys(checked_body), schema.response_body)
    ELSE ~Truthy(checked_body)

\* the headers pass: they validate against the header schema, if there is one
HeaderOk ==
    schema.response_header.kind = "schema" =>
        jsonschema_validate("dict", DOMAIN resp.hdrs, schema.response_header)

\* C15: validate_response raises nothing when the response status is
\* outside 200..207, whatever the schema, body and headers; for a success
\* status it checks the status against the schema's expected code(s)
\* (InvalidHttpSuccessCode; the configuration assertion error when the
\* schema expects a code that is not a success code), then the body
\* (InvalidHTTPResponseBody; with no body schema the body must be empty),
\* then the headers against the optional header schema
\* (InvalidHTTPResponseHeader), and raises for the first check that fails.
C15_ChecksInOrder ==
    Validated =>
        IF resp.status \notin 200..207 THEN outcome.kind = "return"
        ELSE IF ~StatusOk
             THEN outcome.exc = IF CodesOf(schema.status_code) \subseteq 200..207
                                THEN "InvalidHttpSuccessCode" ELSE "AssertionError"
        ELSE IF ~BodyOk THEN outcome.exc = "InvalidHTTPResponseBody"
        ELSE IF ~HeaderOk THEN outcome.exc = "InvalidHTTPResponseHeader"
        ELSE outcome.kind = "return"

\* a 200 response that fails the body check and the header check was
\* refused for its body
C15_Witness ==
    /\ Validated /\ resp.status = 200
    /\ StatusOk /\ ~BodyOk /\ ~HeaderOk
    /\ outcome.exc = "InvalidHTTPResponseBody"

\* a 404 response that would fail the body check was not checked
C15_SkipWitness ==
    /\ Validated /\ resp.status = 404
    /\ schema.response_body.kind = "absent" /\ Truthy(checked_body)
    /\ outcome.kind = "return"

\* a 200 response with a valid body and without the required header was
\* refused for its headers
C15_HeaderWitness ==
    /\ Validated /\ resp.status = 200
    /\ schema.response_body.kind = "schema" /\ BodyOk
    /\ outcome.exc = "InvalidHTTPResponseHeader"

\* a call of wait_for_resource_deletion has ended
Waited == pc = "done" /\ op = "wait_for_resource_deletion"

\* C16: when is_resource_deleted answers false k times and then true
\* before build_timeout has elapsed, wait_for_resource_deletion returns
\* after exactly k sleeps of build_interval each; when it never answers
\* true the call raises TimeoutException, and with build_timeout = 1 and
\* build_interval = 1 it does so after at most one sleep.
C16_SleepsPerFalsePoll ==
    Waited =>
        /\ (deleted_after >= 0 /\ now - start_time < build_timeout) =>
              /\ outcome.kind = "return"
              /\ sleeps = [i \in 1..deleted_after |-> build_interval]
        /\ (deleted_after >= 0 /\ outcome.kind = "return") =>
              sleeps = [i \in 1..deleted_after |-> build_interval]
        /\ deleted_after = Never =>
              /\ outcome.exc = "TimeoutException"
              /\ (build_timeout = 1 /\ build_interval = 1) => Len(sleeps) <= 1

\* false twice, then true: the call returned after exactly two sleeps
C16_Witness ==
    /\ Waited
    /\ deleted_after = 2 /\ build_interval = 1
    /\ outcome.kind = "return" /\ sleeps = <<1, 1>>

\* never true, build_timeout = build_interval = 1: TimeoutException after
\* one sleep
C16_TimeoutWitness ==
    /\ Waited
    /\ deleted_after = Never /\ build_timeout = 1 /\ build_interval = 1
    /\ outcome.exc = "TimeoutException" /\ Len(sleeps) = 1

\* the routing filters of the client as it is now
Filters == filters(service, endpoint_type, region, api_version, _skip_path)

\* the filters ask the auth provider to skip the catalog's path
AsksSkipPath == "skip_path" \in DOMAIN Filters /\ Filters["skip_path"] = TRUE

\* C17: the routing filters of a fresh client have no skip_path key; after
\* skip_path() they have skip_path = TRUE and after reset_path() they have
\* no skip_path key, and no other step changes that, so the key is there
\* exactly when the most recent of these calls was skip_path(); the
\* service, endpoint_type and region entries are the client's and are not
\* changed by these calls; api_version is there exactly when it is set.
C17_Routing ==
    /\ "skip_path" \notin DOMAIN Filters
    /\ [](/\ "skip_path" \in DOMAIN Filters => Filters["skip_path"] = TRUE
          /\ Filters["service"] = service
          /\ Filters["endpoint_type"] = endpoint_type
          /\ Filters["region"] = region
          /\ "api_version" \in DOMAIN Filters <=> api_version # None
          /\ api_version # None => Filters["api_version"] = api_version)
    /\ [][/\ SkipPath => AsksSkipPath'
          /\ ResetPath => ("skip_path" \notin DOMAIN Filters')
          /\ (~SkipPath /\ ~ResetPath) => (AsksSkipPath' <=> AsksSkipPath)
          /\ (SkipPath \/ ResetPath) =>
                /\ Filters'["service"] = Filters["service"]
                /\ Filters'["endpoint_type"] = Filters["endpoint_type"]
                /\ Filters'["region"] = Filters["region"]
                /\ ("api_version" \in DOMAIN Filters') <=> ("api_version" \in DOMAIN Filters)]_vars

\* skip_path() was called on a client with an api_version: the filters have
\* the five entries
C17_Witness ==
    /\ _skip_path /\ api_version = "v1"
    /\ DOMAIN Filters = {"service", "endpoint_type", "region", "api_version", "skip_path"}
    /\ Filters["skip_path"] = TRUE

\* the raw body does not decode, or decodes to something that is not a
\* mapping, or is normalized to something that is not a mapping
NotAMapping(raw) ==
    \/ json_loads(raw).exc # ""
    \/ json_loads(raw).val.kind # "dict"
    \/ _parse_resp(raw).exc = "" /\ _parse_resp(raw).val.kind # "dict"

\* C18 as stated: when request() receives a 413 response with retry-after,
\* a recognized content type and a body that is not a mapping (a plain-text
\* body that does not decode included), and the response passes the
\* body/header consistency check, there is no sleep and no re-dispatch for
\* it and the call raises OverLimit.
C18_AsStated ==
    (/\ op = "request" /\ pc \in {"sleeping", "done"}
     /\ resp.status = 413 /\ HasHeader(resp, "retry-after")
     /\ CtypeOf(resp) \in JSON_ENC \cup TXT_ENC
     /\ response_checker(call.method, resp, resp_body) = ""
     /\ NotAMapping(resp_body)) =>
        /\ pc = "done"
        /\ outcome.kind = "raise" /\ outcome.exc = "OverLimit"

\* C19 as stated: every attempt of a request() call hands the auth provider
\* the headers of the first attempt, and nothing an attempt does (the log's
\* redaction of X-Auth-Token in particular) changes the caller's own
\* headers mapping, for any auth provider.
C19_AsStated ==
    op = "request" =>
        /\ \A i \in 1..Len(authLog) : authLog[i] = authLog[1]
        /\ SharesCallerMap(call) => callerMap = authLog[1]

\* C20 as stated: when request() has retried and stops with the retry bound
\* exhausted, its last response being again a 413 with retry-after that the
\* loop judges not an absolute limit and that passes the body/header
\* consistency check, the error raised is RateLimitExceeded, for every
\* content type of that response.
C20_AsStated ==
    (/\ op = "request" /\ pc = "done"
     /\ retry = MAX_RECURSION_DEPTH /\ dispatches = MAX_RECURSION_DEPTH + 1
     /\ Retryable(resp, resp_body)
     /\ response_checker(call.method, resp, resp_body) = "") =>
        /\ outcome.kind = "raise" /\ outcome.exc = "RateLimitExceeded"

\* the raw body is a mapping whose single top-level key is overLimit, with
\* a mapping holding a message as its value
SingleOverLimit(raw) ==
    /\ raw.text = "json" /\ raw.val.kind = "dict"
    /\ Len(raw.val.d) = 1 /\ raw.val.d[1].k = "overLimit"
    /\ raw.val.d[1].v.kind = "dict" /\ HasKey(raw.val.d[1].v, "message")

\* the body with the same overLimit entry and one more top-level key
WithOtherKeys(raw) == RawJson(OverLimitAnd(raw.val.d[1].v))

\* C21 as stated: for a 413 response with retry-after whose body is the
\* single top-level key overLimit, the classifier raises what it raises for
\* the body with the same overLimit entry plus another top-level key, and
\* the retry loop sleeps after the first attempt exactly when it would for
\* that body.
C21_AsStated ==
    /\ (/\ Classified
        /\ resp.status = 413 /\ HasHeader(resp, "retry-after")
        /\ SingleOverLimit(resp_body)) =>
            outcome.exc = _error_checker(resp, WithOtherKeys(resp_body)).exc
    /\ (/\ op = "request" /\ pc \in {"sleeping", "done"} /\ dispatches = 1
        /\ resp.status = 413 /\ HasHeader(resp, "retry-after")
        /\ int(resp.hdrs["retry-after"]).exc = ""
        /\ response_checker(call.method, resp, resp_body) = ""
        /\ SingleOverLimit(resp_body)) =>
            (pc = "sleeping" <=> LoopCond(resp, WithOtherKeys(resp_body), 0).val)

\* C22: within request(), the body/header consistency check is applied to
\* the response of every attempt before the retry decision and before the
\* classifier: a response that violates it ends the call with the check's
\* error (ResponseWithNonEmptyBody or ResponseWithEntity), with no sleep
\* and no further dispatch for it and no status-based error.
C22_CheckedFirst ==
    (/\ op = "request" /\ pc \in {"awaiting", "sleeping", "done"}
     /\ resp # NoResponse
     /\ response_checker(call.method, resp, resp_body) # "") =>
        /\ pc = "done"
        /\ outcome = RaiseOutcome(response_checker(call.method, resp, resp_body), PNone)
        /\ outcome.exc \in {"ResponseWithNonEmptyBody", "ResponseWithEntity"}
        /\ Len(sleeps) = dispatches - 1

\* a HEAD request was answered by a 413 with a body that the loop would
\* retry on: the call ended with ResponseWithNonEmptyBody and no sleep
C22_Witness ==
    /\ op = "request" /\ pc = "done"
    /\ call.method = "HEAD" /\ Retryable(resp, resp_body)
    /\ int(resp.hdrs["retry-after"]).exc = ""
    /\ outcome.exc = "ResponseWithNonEmptyBody"
    /\ sleeps = <<>> /\ dispatches = 1

\* the second attempt of a call was answered by a 205 with an entity
\* header and the call ended with ResponseWithEntity
C22_EntityWitness ==
    /\ op = "request" /\ pc = "done"
    /\ dispatches = 2 /\ resp.status = 205
    /\ outcome.exc = "ResponseWithEntity"

\* a call of wait_for_resource_deletion is in progress or has ended
Waiting == op = "wait_for_resource_deletion"

\* C23, the state part: the sleeps are bounded by build_timeout (each
\* advances the clock by build_interval > 0 and none starts once
\* build_timeout has elapsed), so the loop ends; the call ends only after
\* a poll; it returns exactly at the first poll that yields true, whatever
\* the time elapsed; TimeoutException is raised only after a poll that
\* yielded false with elapsed time >= build_timeout; with the base
\* client's is_resource_deleted the not-implemented error leaves the call
\* on the first poll with no sleep.
C23_State ==
    Waiting =>
        /\ build_interval > 0
        /\ Len(sleeps) * build_interval < build_timeout + build_interval
        /\ now - start_time >= Len(sleeps) * build_interval
        /\ polls <= Len(sleeps) + 1
        /\ pc = "pausing" => (polls = Len(sleeps) + 1 /\ now - start_time < build_timeout)
        /\ pc = "done" =>
              /\ polls = Len(sleeps) + 1
              /\ outcome.kind = "return" <=> (deleted_after >= 0 /\ polls = deleted_after + 1)
              /\ outcome.exc = "TimeoutException" <=>
                    /\ deleted_after = Never \/ (deleted_after >= 0 /\ polls <= deleted_after)
                    /\ now - start_time >= build_timeout
              /\ deleted_after = Unimplemented <=> outcome.exc = "NotImplementedError"
              /\ deleted_after = Unimplemented => (polls = 1 /\ sleeps = <<>>)

\* C23, the step part: each sleep advances the clock by build_interval and
\* is followed by a poll; the call ends in a poll step; once it has ended
\* nothing happens but the caller taking the result (no further sleep).
C23_Step ==
    /\ (Waiting /\ pc = "pausing") =>
            (pc' = "polling" /\ now' = now + build_interval
                /\ sleeps' = Append(sleeps, build_interval))
    /\ (Waiting /\ pc # "done" /\ pc' = "done") =>
            (pc = "polling" /\ polls' = polls + 1 /\ sleeps' = sleeps)
    /\ (Waiting /\ pc = "polling" /\ pc' = "pausing") =>
            (polls' = polls + 1 /\ sleeps' = sleeps)
    /\ (Waiting /\ pc = "done") => pc' = "idle"

\* C23: with a clock that advances by build_interval > 0 on every sleep,
\* wait_for_resource_deletion terminates (its sleeps are bounded), polls
\* before any timeout test, returns at the first true poll even after
\* build_timeout has elapsed, raises TimeoutException only directly after a
\* false poll with elapsed >= build_timeout and does not sleep after it,
\* and lets the base client's not-implemented error out on the first poll.
C23_PollingTerminates == [](C23_State) /\ [][C23_Step]_vars

\* the call returned at a true poll made after build_timeout had elapsed
C23_Witness ==
    /\ Waiting /\ pc = "done"
    /\ outcome.kind = "return"
    /\ Len(sleeps) >= 1 /\ now - start_time >= build_timeout

\* TimeoutException after a false poll of an is_resource_deleted that
\* would have answered true on the next poll
C23_TimeoutWitness ==
    /\ Waiting /\ pc = "done"
    /\ deleted_after >= 0 /\ polls = deleted_after
    /\ outcome.exc = "TimeoutException"

\* the base client's is_resource_deleted: NotImplementedError on the first
\* poll
C23_UnimplementedWitness ==
    /\ Waiting /\ pc = "done"
    /\ deleted_after = Unimplemented /\ polls = 1 /\ sleeps = <<>>
    /\ outcome.exc = "NotImplementedError"

====
